---- MODULE Spec2Model ----
(***************************************************************************)
(* The file watcher and review pipeline of Routes/main.py.                 *)
(*                                                                         *)
(* A watchdog Observer delivers the file-system events of DIRECTORY, one   *)
(* at a time, to CodeChangeHandler.on_modified on its single dispatching   *)
(* thread.  on_modified filters the event, reads the file, asks the        *)
(* backend for a review and for a fix, appends the review to               *)
(* code_review_documentation.txt and overwrites fixed_<file_name>.         *)
(*                                                                         *)
(* Paths and texts are sequences of tokens, so that os.path.join,          *)
(* os.path.basename, str.endswith and the f-strings are computed.          *)
(***************************************************************************)
EXTENDS Integers, Sequences, FiniteSets, TLC

\* ------------------------------------------------------------------ bounds
\* external file-system operations performed by the user
MaxEnvOps == 2
\* invocations of on_modified that get past the filter
MaxRuns == 3

\* ----------------------------------------------------------- configuration
DIRECTORY == <<"./project">>

\* --------------------------------------------------------- path functions
\* os.path.join(DIRECTORY, name)
Join(dir, name) == dir \o <<"/">> \o name

\* index of the last "/" token of a path, 0 when there is none
RECURSIVE LastSlash(_, _)
LastSlash(path, i) ==
    IF i = 0 THEN 0
    ELSE IF path[i] = "/" THEN i
    ELSE LastSlash(path, i - 1)

\* os.path.basename(path)
Basename(path) == SubSeq(path, LastSlash(path, Len(path)) + 1, Len(path))

\* path.endswith(suffix), suffix one token
EndsWith(path, suffix) == Len(path) > 0 /\ path[Len(path)] = suffix

\* os.path.join(DIRECTORY, "code_review_documentation.txt")
DocPath == Join(DIRECTORY, <<"code_review_documentation", ".txt">>)

\* os.path.join(DIRECTORY, f"fixed_{file_name}")
FixedPath(file_name) == Join(DIRECTORY, <<"fixed_">> \o file_name)

\* ------------------------------------------------------------ the user's files
UserNames == {<<"a", ".py">>, <<"fixed_", "a", ".py">>, <<"notes", ".txt">>}

\* a sub-directory of DIRECTORY whose name ends with .py
SubDir == Join(DIRECTORY, <<"pkg", ".py">>)

\* file contents the user writes; "xFF" is a byte that is not valid UTF-8
UserContents == {<<"v1">>, <<"v2", "more">>, <<"xFF">>}

Empty == << >>

\* ------------------------------------------------------------------ events
FileModified(path) ==
    [event_type |-> "modified", src_path |-> path, is_directory |-> FALSE]

DirModified(path) ==
    [event_type |-> "modified", src_path |-> path, is_directory |-> TRUE]

\* Observer.event_queue.put: the queue skips an event equal to the one queued last
Put(q, e) == IF Len(q) > 0 /\ q[Len(q)] = e THEN q ELSE Append(q, e)

\* the test without its is_directory half
FilteredByExtension(event) == ~EndsWith(event.src_path, ".py")

\* the test of on_modified that makes it return at once
Filtered(event) == event.is_directory \/ ~EndsWith(event.src_path, ".py")

\* ------------------------------------------------------------- file system
Exists(fs, path) == path \in DOMAIN fs

WriteFile(fs, path, data) ==
    [q \in DOMAIN fs \cup {path} |-> IF q = path THEN data ELSE fs[q]]

RemoveFile(fs, path) == [q \in DOMAIN fs \ {path} |-> fs[q]]

\* an open that creates the file but does not truncate it
OpenKeep(fs, path) == IF Exists(fs, path) THEN fs ELSE WriteFile(fs, path, Empty)

\* open(path, 'w'): creates the file, or truncates it to length zero
OpenW(fs, path) == WriteFile(fs, path, Empty)

\* file.write(data) at offset 0 of a file that holds cur
Overlay(cur, data) == data \o SubSeq(cur, Len(data) + 1, Len(cur))

\* f.read() with encoding='utf-8': the text, or a failure
Decodable(data) == \A i \in DOMAIN data : data[i] # "xFF"

\* a read that answers the empty text where the file cannot be read
ReadFileLenient(fs, path) ==
    IF Exists(fs, path) /\ Decodable(fs[path])
    THEN [ok |-> TRUE, data |-> fs[path]]
    ELSE [ok |-> TRUE, data |-> Empty]

ReadFile(fs, path) ==
    IF Exists(fs, path) /\ Decodable(fs[path])
    THEN [ok |-> TRUE, data |-> fs[path]]
    ELSE [ok |-> FALSE, data |-> Empty]

\* ----------------------------------------------------------------- backend
\* response['message']['content'] of the review chat
ReviewText(code) == <<"review:">> \o code

\* response_fixed['message']['content'] of the fix chat
FixText(code) == <<"fix:">> \o code

\* -------------------------------------------------------- snippet endpoint
\* the code strings posted to /analyze
SnippetCodes == {<<"x = 1/0">>, <<"print(1)">>}

\* run_model: the prompt, the code between its heading and its task
Prompt(code) == <<"### Code to review:">> \o code \o <<"### Task:">>

\* response[0]['generated_text'] of the text-generation pipeline
GeneratedText(prompt) == prompt \o <<"generated">>

\* a run_model that answers with the code it was given
run_model_echo(code) == [analysis |-> code]

\* run_model: the generated text in the field analysis
run_model(code) == [analysis |-> GeneratedText(Prompt(code))]

\* ------------------------------------------------------------- review log
\* f"Review for {file_name}:\n{review}\n{'-'*40}\n"; run is a history field
Block(file_name, review, r) ==
    [file_name |-> file_name, review |-> review, run |-> r]

\* the write on a log opened with 'w'
OverwriteDoc(d, block) == <<block>>

\* doc_file.write on a file opened with 'a'
AppendDoc(d, block) == Append(d, block)

\* ------------------------------------------------------------------- state
VARIABLES
    files,      \* the regular files of DIRECTORY other than the log: path -> content
    doc,        \* code_review_documentation.txt: the blocks written so far
    queue,      \* observer.event_queue
    runs,       \* the invocations of on_modified that passed the filter
    observer,   \* "running", or "dead" once an exception left on_modified
    skipped,    \* events on which on_modified returned at once
    settles,    \* path -> number of bursts of modification events so far
    pending,    \* paths modified during a run for the same path, event not yet taken
    api,        \* the snippet endpoint: requests served, generator calls, last exchange
    envOps      \* number of user operations so far

vars == <<files, doc, queue, runs, observer, skipped, settles, pending, api, envOps>>

Count(f, p) == IF p \in DOMAIN f THEN f[p] ELSE 0

Bump(f, p) == [q \in DOMAIN f \cup {p} |-> IF q = p THEN Count(f, p) + 1 ELSE f[q]]

\* the order with the review saved before the fix is asked for
StepAfterEager(pc) ==
    CASE pc = "read" -> "review"
      [] pc = "review" -> "save_review"
      [] pc = "save_review" -> "fix"
      [] pc = "fix" -> "open_fixed"
      [] pc = "open_fixed" -> "write_fixed"
      [] pc = "write_fixed" -> "done"

\* the order with the fix asked for before the review
StepAfterFixFirst(pc) ==
    CASE pc = "read" -> "fix"
      [] pc = "fix" -> "review"
      [] pc = "review" -> "save_review"
      [] pc = "save_review" -> "open_fixed"
      [] pc = "open_fixed" -> "write_fixed"
      [] pc = "write_fixed" -> "done"

\* order of the statements of on_modified and analyze_code_file
StepAfter(pc) ==
    CASE pc = "read" -> "review"
      [] pc = "review" -> "fix"
      [] pc = "fix" -> "save_review"
      [] pc = "save_review" -> "open_fixed"
      [] pc = "open_fixed" -> "write_fixed"
      [] pc = "write_fixed" -> "done"

InFlight(run) == run.pc \notin {"done", "failed"}

\* a dispatcher that starts a call for every event at once
ThreadPerEvent == TRUE

\* on_modified runs on the observer's one thread: the next event is
\* dispatched when the previous call has returned
ThreadFree == \A r \in DOMAIN runs : ~InFlight(runs[r])

NewRun(event) ==
    [event |-> event,
     file_name |-> Basename(event.src_path),
     pc |-> "read",
     code |-> Empty,
     review |-> Empty,
     fixed_code |-> Empty,
     err |-> "none",
     calls |-> << >>,
     log0 |-> Len(doc),
     appended |-> 0,
     opened |-> 0,
     truncated |-> FALSE,
     prev |-> Empty,
     replaced |-> 0]

Init ==
    /\ files = << >>
    /\ doc = << >>
    /\ queue = << >>
    /\ runs = << >>
    /\ observer = "running"
    /\ skipped = {}
    /\ settles = << >>
    /\ pending = {}
    /\ api = [requests |-> 0, generated |-> 0, code |-> Empty, raw |-> Empty,
              response |-> [status |-> 0, body |-> [analysis |-> Empty]]]
    /\ envOps = 0

\* an exception leaves on_modified: nothing in on_modified or run_observer
\* catches it, and the observer's thread ends
Raise(r, run, kind) ==
    /\ runs' = [runs EXCEPT ![r] = [run EXCEPT !.pc = "failed", !.err = kind]]
    /\ observer' = "dead"

\* ------------------------------------------------------------ user actions
\* the user saves a file; within: less than the quiet period after the
\* previous modification event of the same file.  A new file also changes
\* DIRECTORY.  The user leaves alone a slot that save_fixed_code holds open.
UserModify(name, data, within) ==
    LET path == Join(DIRECTORY, name) IN
    /\ envOps < MaxEnvOps
    /\ within => Count(settles, path) > 0
    /\ \A r \in DOMAIN runs :
           runs[r].pc = "write_fixed" => FixedPath(runs[r].file_name) # path
    /\ files' = WriteFile(files, path, data)
    /\ queue' = IF Exists(files, path)
                THEN Put(queue, FileModified(path))
                ELSE Put(Put(queue, DirModified(DIRECTORY)), FileModified(path))
    /\ settles' = IF within THEN settles ELSE Bump(settles, path)
    /\ pending' = IF \E r \in DOMAIN runs :
                       InFlight(runs[r]) /\ runs[r].event.src_path = path
                  THEN pending \cup {path} ELSE pending
    /\ envOps' = envOps + 1
    /\ UNCHANGED <<doc, runs, observer, skipped, api>>

\* the user deletes a file: DIRECTORY changes; the deletion itself is not a
\* modification event and reaches no code of the handler
UserDelete(name) ==
    LET path == Join(DIRECTORY, name) IN
    /\ envOps < MaxEnvOps
    /\ Exists(files, path)
    /\ \A r \in DOMAIN runs :
           runs[r].pc = "write_fixed" => FixedPath(runs[r].file_name) # path
    /\ files' = RemoveFile(files, path)
    /\ queue' = Put(queue, DirModified(DIRECTORY))
    /\ envOps' = envOps + 1
    /\ UNCHANGED <<doc, runs, observer, skipped, settles, pending, api>>

\* an entry of the sub-directory changes
UserTouchSubDir ==
    /\ envOps < MaxEnvOps
    /\ queue' = Put(queue, DirModified(SubDir))
    /\ envOps' = envOps + 1
    /\ UNCHANGED <<files, doc, runs, observer, skipped, settles, pending, api>>

\* -------------------------------------------------------- analyze_code_api
\* one POST /analyze: run_model calls the generator once; the generator
\* answers or raises, and the exception becomes a response of status 500
analyze_code_api ==
    \E code \in SnippetCodes, ok \in BOOLEAN :
    /\ envOps < MaxEnvOps
    /\ api' = [requests |-> api.requests + 1,
               generated |-> api.generated + 1,
               code |-> code,
               raw |-> IF ok THEN GeneratedText(Prompt(code)) ELSE Empty,
               response |-> IF ok
                            THEN [status |-> 200, body |-> run_model(code)]
                            ELSE [status |-> 500,
                                  body |-> [detail |-> <<"generator error">>]]]
    /\ envOps' = envOps + 1
    /\ UNCHANGED <<files, doc, queue, runs, observer, skipped, settles, pending>>

\* ------------------------------------------------- CodeChangeHandler.on_modified
\* the observer takes the next event and calls on_modified, up to the filter;
\* MaxRuns caps the calls that pass it
on_modified ==
    /\ observer = "running"
    /\ ThreadFree
    /\ queue # << >>
    /\ LET event == Head(queue) IN
       /\ Filtered(event) \/ Len(runs) < MaxRuns
       /\ queue' = Tail(queue)
       /\ pending' = pending \ {event.src_path}
       /\ IF Filtered(event)
          THEN /\ skipped' = skipped \cup {event}
               /\ UNCHANGED runs
          ELSE /\ runs' = Append(runs, NewRun(event))
               /\ UNCHANGED skipped
    /\ UNCHANGED <<files, doc, observer, settles, api, envOps>>

\* analyze_code_file: open and read the file
analyze_read ==
    \E r \in DOMAIN runs :
    /\ runs[r].pc = "read"
    /\ LET got == ReadFile(files, runs[r].event.src_path) IN
       IF got.ok
       THEN /\ runs' = [runs EXCEPT ![r].code = got.data,
                                    ![r].pc = StepAfter("read")]
            /\ UNCHANGED observer
       ELSE Raise(r, runs[r], "ReadError")
    /\ UNCHANGED <<files, doc, queue, skipped, settles, pending, api, envOps>>

\* analyze_code_file: the review chat; the backend answers or raises
analyze_review ==
    \E r \in DOMAIN runs :
    /\ runs[r].pc = "review"
    /\ \E ok \in BOOLEAN :
         IF ok
         THEN /\ runs' = [runs EXCEPT
                    ![r].review = ReviewText(runs[r].code),
                    ![r].calls = Append(@, <<"review", runs[r].code>>),
                    ![r].pc = StepAfter("review")]
              /\ UNCHANGED observer
         ELSE Raise(r, [runs[r] EXCEPT !.calls = Append(@, <<"review", runs[r].code>>)],
                    "InferenceError")
    /\ UNCHANGED <<files, doc, queue, skipped, settles, pending, api, envOps>>

\* analyze_code_file: the fix chat; the backend answers or raises
analyze_fix ==
    \E r \in DOMAIN runs :
    /\ runs[r].pc = "fix"
    /\ \E ok \in BOOLEAN :
         IF ok
         THEN /\ runs' = [runs EXCEPT
                    ![r].fixed_code = FixText(runs[r].code),
                    ![r].calls = Append(@, <<"fix", runs[r].code>>),
                    ![r].pc = StepAfter("fix")]
              /\ UNCHANGED observer
         ELSE Raise(r, [runs[r] EXCEPT !.calls = Append(@, <<"fix", runs[r].code>>)],
                    "InferenceError")
    /\ UNCHANGED <<files, doc, queue, skipped, settles, pending, api, envOps>>

\* save_review_documentation: open the log with 'a' and write the block;
\* open raises when the store is unwritable
save_review_documentation ==
    \E r \in DOMAIN runs :
    /\ runs[r].pc = "save_review"
    /\ \E ok \in BOOLEAN :
         IF ok
         THEN /\ doc' = AppendDoc(doc, Block(runs[r].file_name, runs[r].review, r))
              /\ queue' = IF doc = << >>
                          THEN Put(Put(queue, DirModified(DIRECTORY)),
                                   FileModified(DocPath))
                          ELSE Put(queue, FileModified(DocPath))
              /\ runs' = [runs EXCEPT ![r].appended = @ + 1,
                                      ![r].pc = StepAfter("save_review")]
              /\ UNCHANGED observer
         ELSE /\ Raise(r, runs[r], "PersistError")
              /\ UNCHANGED <<doc, queue>>
    /\ UNCHANGED <<files, skipped, settles, pending, api, envOps>>

\* save_fixed_code: open(fixed_file_path, 'w'); truncating a file modifies
\* it, creating one changes DIRECTORY
save_fixed_open ==
    \E r \in DOMAIN runs :
    LET path == FixedPath(runs[r].file_name) IN
    /\ runs[r].pc = "open_fixed"
    /\ \E ok \in BOOLEAN :
         IF ok
         THEN /\ files' = OpenW(files, path)
              /\ queue' = IF Exists(files, path)
                          THEN Put(queue, FileModified(path))
                          ELSE Put(queue, DirModified(DIRECTORY))
              /\ settles' = IF Exists(files, path)
                            THEN Bump(settles, path) ELSE settles
              /\ runs' = [runs EXCEPT ![r].opened = @ + 1,
                                      ![r].truncated = Exists(files, path),
                                      ![r].prev = IF Exists(files, path)
                                                  THEN files[path] ELSE Empty,
                                      ![r].pc = StepAfter("open_fixed")]
              /\ UNCHANGED observer
         ELSE /\ Raise(r, runs[r], "PersistError")
              /\ UNCHANGED <<files, queue, settles>>
    /\ UNCHANGED <<doc, skipped, pending, api, envOps>>

\* save_fixed_code: fixed_file.write(fixed_code) and the close of the file
save_fixed_write ==
    \E r \in DOMAIN runs :
    LET path == FixedPath(runs[r].file_name) IN
    /\ runs[r].pc = "write_fixed"
    /\ files' = WriteFile(files, path, Overlay(files[path], runs[r].fixed_code))
    /\ queue' = Put(queue, FileModified(path))
    /\ settles' = IF runs[r].truncated THEN settles ELSE Bump(settles, path)
    /\ runs' = [runs EXCEPT ![r].replaced = @ + 1,
                            ![r].pc = StepAfter("write_fixed")]
    /\ UNCHANGED <<doc, observer, skipped, pending, api, envOps>>

Next ==
    \/ \E name \in UserNames, data \in UserContents, within \in BOOLEAN :
           UserModify(name, data, within)
    \/ \E name \in UserNames : UserDelete(name)
    \/ UserTouchSubDir
    \/ analyze_code_api
    \/ on_modified
    \/ analyze_read
    \/ analyze_review
    \/ analyze_fix
    \/ save_review_documentation
    \/ save_fixed_open
    \/ save_fixed_write

Spec == Init /\ [][Next]_vars

\* the steps of the program itself go on; analyze_review and analyze_fix end
\* when the backend answers, which ollama.chat awaits without a timeout, and
\* the user and the clients of the endpoint act when they choose
FairSpec ==
    /\ Spec
    /\ WF_vars(on_modified)
    /\ WF_vars(analyze_read)
    /\ WF_vars(save_review_documentation)
    /\ WF_vars(save_fixed_open)
    /\ WF_vars(save_fixed_write)

\* ------------------------------------------------------------------ claims
RunsOf(path) == {r \in DOMAIN runs : runs[r].event.src_path = path}

IsPrefix(s, t) == Len(s) <= Len(t) /\ SubSeq(t, 1, Len(s)) = s

\* C1: the modification events of one file that arrive less than the quiet
\* period apart form one burst, and a burst triggers one pipeline run: a file
\* never has more runs than it has had bursts.
C1_OneRunPerBurst ==
    \A r \in DOMAIN runs :
        Cardinality(RunsOf(runs[r].event.src_path))
            <= Count(settles, runs[r].event.src_path)

\* C2: for every filename at most one pipeline run is in flight, in
\* particular no two runs of one filename are in their persisting steps at
\* the same time.
C2_OneRunInFlightPerFile ==
    \A r1, r2 \in DOMAIN runs :
        (r1 # r2 /\ runs[r1].file_name = runs[r2].file_name)
            => ~(InFlight(runs[r1]) /\ InFlight(runs[r2]))

\* C2 happens: a run is persisting while a further event of its file waits
C2_Witness ==
    \E r \in DOMAIN runs :
        /\ runs[r].pc \in {"save_review", "open_fixed", "write_fixed"}
        /\ \E i \in DOMAIN queue : queue[i] = runs[r].event

C4_InferenceFailureWritesNothing ==
    \A r \in DOMAIN runs :
        (runs[r].pc = "failed" /\ runs[r].err = "InferenceError") =>
            /\ Len(doc) = runs[r].log0
            /\ \A i \in DOMAIN doc : doc[i].run # r
            /\ runs[r].appended = 0
            /\ runs[r].opened = 0
            /\ runs[r].replaced = 0

\* C4 happens: the fix call failed after the review call had succeeded
C4_Witness ==
    \E r \in DOMAIN runs :
        /\ runs[r].pc = "failed" /\ runs[r].err = "InferenceError"
        /\ Len(runs[r].calls) = 2
        /\ runs[r].review # Empty

\* C5: a run that reads its source while the file is missing or is not
\* valid UTF-8 fails there with a read error, and a run that failed with a
\* read error has called the backend zero times and written nothing to the
\* log or to its fixed slot.
C5_ReadFailureWritesNothing ==
    /\ [][\A r \in DOMAIN runs :
             (/\ runs[r].pc = "read" /\ runs'[r].pc # "read"
              /\ \/ runs[r].event.src_path \notin DOMAIN files
                 \/ \E i \in DOMAIN files[runs[r].event.src_path] :
                        files[runs[r].event.src_path][i] = "xFF")
             => (runs'[r].pc = "failed" /\ runs'[r].err = "ReadError")]_vars
    /\ [](\A r \in DOMAIN runs :
             (runs[r].pc = "failed" /\ runs[r].err = "ReadError") =>
                 /\ runs[r].calls = << >>
                 /\ Len(doc) = runs[r].log0
                 /\ \A i \in DOMAIN doc : doc[i].run # r
                 /\ runs[r].appended = 0
                 /\ runs[r].opened = 0
                 /\ runs[r].replaced = 0)

\* C5 happens: the file was deleted between its event and the read
C5_Witness ==
    \E r \in DOMAIN runs :
        /\ runs[r].pc = "failed" /\ runs[r].err = "ReadError"
        /\ ~Exists(files, runs[r].event.src_path)

\* C6: a failed run does not take the watcher down: after a run has failed
\* the observer still dispatches events.
C6_FailureIsolation ==
    \A r \in DOMAIN runs : runs[r].pc = "failed" => observer = "running"

\* C7: while a run replaces the fixed slot that an earlier run of the same
\* file has filled, the slot holds the complete previous fix or the complete
\* new fix.
C7_AtomicReplace ==
    \A r \in DOMAIN runs :
        (/\ runs[r].pc = "write_fixed"
         /\ \E r0 \in DOMAIN runs :
                /\ r0 # r /\ runs[r0].pc = "done"
                /\ runs[r0].file_name = runs[r].file_name
                /\ runs[r].prev = runs[r0].fixed_code)
        => files[FixedPath(runs[r].file_name)] \in {runs[r].prev, runs[r].fixed_code}

\* C8: every step leaves the log it found as a prefix of the log it leaves.
C8_AppendOnlyLog == [][IsPrefix(doc, doc')]_vars

\* C8 happens: two runs have appended, and a run has failed
C8_Witness ==
    /\ Len(doc) >= 2
    /\ \E r \in DOMAIN runs : runs[r].pc = "failed"

\* C9: a change of a file that arrives while a run for that file is in
\* flight is not lost: its event stays queued and the observer is still
\* there to start the further run.
C9_QueuedNotDropped ==
    \A path \in pending :
        /\ \E i \in DOMAIN queue : queue[i] = FileModified(path)
        /\ observer = "running"

\* C10: an event of a directory, or of a path that does not end with .py,
\* starts no run (hence no backend call) and its dispatch changes neither
\* the log nor any file.
C10_EventFiltering ==
    /\ [](\A r \in DOMAIN runs :
             ~runs[r].event.is_directory /\ EndsWith(runs[r].event.src_path, ".py"))
    /\ [][(/\ queue # << >>
           /\ queue' = Tail(queue)
           /\ (Head(queue).is_directory \/ ~EndsWith(Head(queue).src_path, ".py")))
          => (runs' = runs /\ doc' = doc /\ files' = files)]_vars

\* C10 happens: on_modified has returned at once on a directory whose name
\* ends with .py and on a file without the extension
C10_Witness ==
    /\ DirModified(SubDir) \in skipped
    /\ \E e \in skipped : ~e.is_directory

\* C11: a request to the snippet endpoint makes one generator call and is
\* answered with the raw generated text in the single field analysis, or
\* with a failure carrying the message; serving it changes neither the log,
\* nor any file, nor any run, nor the observer and its queue.
C11_SnippetEndpointStateless ==
    [][api' # api =>
          /\ api'.requests = api.requests + 1
          /\ api'.generated = api.generated + 1
          /\ \/ /\ api'.response.status = 200
                /\ api'.response.body = [analysis |-> api'.raw]
                /\ api'.raw = <<"### Code to review:">> \o api'.code
                                  \o <<"### Task:", "generated">>
             \/ /\ api'.response.status = 500
                /\ api'.response.body = [detail |-> <<"generator error">>]
          /\ doc' = doc /\ files' = files /\ runs' = runs
          /\ queue' = queue /\ observer' = observer]_vars

\* C11 happens: a request was answered with an analysis while a run was in
\* flight
C11_Witness ==
    /\ api.response.status = 200
    /\ api.requests >= 1
    /\ \E r \in DOMAIN runs : InFlight(runs[r])

\* C12: after one external modification of one file the pipeline's own
\* writes start no further run: no run is triggered by an event of a path
\* that is the fixed slot of a run.
C12_NoSelfTriggeredRun ==
    envOps <= 1 =>
        \A r, r0 \in DOMAIN runs :
            runs[r].event.src_path # FixedPath(runs[r0].file_name)

\* C13: the fixed slots of two distinct filenames differ, and the slot a run
\* opens for writing is never a file that holds a text the user saved: a run
\* modifies no source file.
C13_PipelineFrame ==
    /\ \A r1, r2 \in DOMAIN runs :
           runs[r1].file_name # runs[r2].file_name
               => FixedPath(runs[r1].file_name) # FixedPath(runs[r2].file_name)
    /\ \A r \in DOMAIN runs :
           runs[r].opened > 0 => runs[r].prev \notin UserContents

\* C14: the log has one record per run that completed, in completion order;
\* a run that failed, also one that failed while persisting, has no record:
\* the records are those of distinct runs, in the order the runs were made,
\* and none is the record of a failed run.
C14_RecordsOfCompletedRuns ==
    /\ \A i, j \in DOMAIN doc : i < j => doc[i].run < doc[j].run
    /\ \A i \in DOMAIN doc : runs[doc[i].run].pc # "failed"

\* C15 as stated: every run that got past reading its source and has ended
\* has issued exactly two backend calls.
C15_ExactlyTwoCalls ==
    \A r \in DOMAIN runs :
        (runs[r].pc \in {"done", "failed"} /\ runs[r].err # "ReadError")
            => Len(runs[r].calls) = 2

\* C15 amended: a run issues the review call first and the fix call only
\* after the review call has returned, both with the text of its one read:
\* no call before the review, one call while the fix is awaited, two calls
\* from then on, and one or two calls in a run that failed in a call.
C15_ReviewThenFixSameCode ==
    \A r \in DOMAIN runs :
        LET first == <<"review", runs[r].code>>
            second == <<"fix", runs[r].code>>
        IN  /\ runs[r].pc \in {"read", "review"} => runs[r].calls = << >>
            /\ runs[r].pc = "fix" => runs[r].calls = <<first>>
            /\ runs[r].pc \in {"save_review", "open_fixed", "write_fixed", "done"}
                   => runs[r].calls = <<first, second>>
            /\ (runs[r].pc = "failed" /\ runs[r].err = "InferenceError")
                   => \/ runs[r].calls = <<first>> /\ runs[r].review = Empty
                      \/ runs[r].calls = <<first, second>> /\ runs[r].review # Empty
            /\ (runs[r].pc = "failed" /\ runs[r].err = "PersistError")
                   => runs[r].calls = <<first, second>>
            /\ (runs[r].pc = "failed" /\ runs[r].err = "ReadError")
                   => runs[r].calls = << >>

\* C15 happens: a run made both calls with the text it read although the
\* file was saved again with another text before the run ended
C15_Witness ==
    \E r \in DOMAIN runs :
        /\ runs[r].pc = "done"
        /\ Len(runs[r].calls) = 2
        /\ runs[r].calls[1][2] = runs[r].calls[2][2]
        /\ Exists(files, runs[r].event.src_path)
        /\ files[runs[r].event.src_path] # runs[r].code

\* C16: every run that awaits the review or the fix of the backend
\* eventually stops awaiting it, whether or not the backend answers.
C16_BoundedInferenceWait ==
    \A r \in 1..MaxRuns :
        (r \in DOMAIN runs /\ runs[r].pc \in {"review", "fix"})
            ~> ~(r \in DOMAIN runs /\ runs[r].pc \in {"review", "fix"})

\* C17: a run in flight for one file does not keep the change of another
\* file waiting: when the next queued event is an eligible event of a file
\* that has no run in flight, its run can start at once.
C17_CrossFileIndependence ==
    (/\ observer = "running"
     /\ queue # << >>
     /\ Len(runs) < MaxRuns
     /\ ~Head(queue).is_directory
     /\ EndsWith(Head(queue).src_path, ".py")
     /\ \A r \in DOMAIN runs :
            InFlight(runs[r]) => runs[r].event.src_path # Head(queue).src_path)
    => ENABLED on_modified

\* the runs of a path have all completed and no event of the path is queued
Settled(path) ==
    /\ RunsOf(path) # {}
    /\ \A r \in RunsOf(path) : runs[r].pc = "done"
    /\ \A i \in DOMAIN queue : queue[i] # FileModified(path)

\* C18: the text a run gives to the backend is the text of the file at the
\* step that reads it; and once the events of a file have all been taken and
\* its runs have all completed, the file's fixed slot holds the fix of the
\* text the file holds now.
C18_FreshestContent ==
    /\ [][\A r \in DOMAIN runs :
             (runs[r].pc = "read" /\ runs'[r].pc \notin {"read", "failed"})
                 => runs'[r].code = files[runs[r].event.src_path]]_vars
    /\ [](\A r \in DOMAIN runs :
             LET path == runs[r].event.src_path
                 slot == FixedPath(Basename(path))
             IN  (Settled(path) /\ Exists(files, path))
                 => (Exists(files, slot) /\ files[slot] = FixText(files[path])))

\* the blocks of the log for a filename
RecordsOf(file_name) == {i \in DOMAIN doc : doc[i].file_name = file_name}

\* C19: a run writes nothing before both backend calls have returned and
\* opens its fixed slot only after its block is in the log; so for every
\* filename the replacements of its slot are at most the blocks for it, and
\* a fixed slot that is not empty belongs to a filename with a block.
C19_PersistOrdering ==
    /\ \A r \in DOMAIN runs :
           /\ (runs[r].appended > 0 \/ runs[r].opened > 0) => Len(runs[r].calls) = 2
           /\ runs[r].opened > 0 => \E i \in DOMAIN doc : doc[i].run = r
           /\ runs[r].replaced <= runs[r].opened
           /\ Cardinality({q \in DOMAIN runs :
                              /\ runs[q].file_name = runs[r].file_name
                              /\ runs[q].replaced > 0})
                  <= Cardinality(RecordsOf(runs[r].file_name))
    /\ \A path \in DOMAIN files :
           (Len(path) > 3 /\ path[3] = "fixed_" /\ files[path] # Empty)
               => RecordsOf(SubSeq(path, 4, Len(path))) # {}

====
